---- MODULE Spec2Model ----
(***************************************************************************)
(* A model of mcp2plugin: the marketplace catalog manager                  *)
(* (core/marketplace.py), the conversion orchestrator (core/converter.py), *)
(* the LLM enhancement adapter (llm/gemini.py), the descriptor builder     *)
(* (core/plugin_generator.py) and the URL classifier (utils/url_parser.py).*)
(*                                                                         *)
(* Text is modelled as sequences of one-character strings where the code   *)
(* inspects characters (plugin names), as sequences of lexical tokens      *)
(* where the code applies regular expressions (URLs), and as TLA+ strings  *)
(* where the code only tests emptiness or length (descriptions).           *)
(***************************************************************************)
EXTENDS Integers, Sequences, FiniteSets, TLC

VARIABLES
    disk,   \* the catalog file <root>/.claude-plugin/marketplace.json
    last,   \* the last completed call of the catalog API (history)
    born,   \* per plugin name, the list position its entry was first inserted
            \* at, 0 once absent or shifted by a removal (history)
    procs,  \* concurrent add_plugin calls: where each is and what it loaded
    log,    \* the file accesses of the concurrent calls, in order (history)
    fs,     \* the output directory: whether it exists, and the plugin.json of
            \* each plugin directory in it
    conv,   \* the Converter of the running process and the call it executes
    net,    \* the requests the call has sent: page fetches and LLM requests
    enh,    \* a direct call of GeminiParser.enhance_mcp_info: its argument,
            \* the provider's answer, the record returned, the requests sent
    pure    \* a direct call of one of the pure functions (normalize_url,
            \* detect_source, _sanitize_name, _create_plugin_config): its
            \* argument and what it returned

vars == <<disk, last, born, procs, log, fs, conv, net, enh, pure>>

catalogVars == <<disk, last, born>>
raceVars    == <<procs, log>>
convVars    == <<fs, conv, net, enh, pure>>

(***************************************************************************)
(* Bounds of the model.                                                    *)
(***************************************************************************)
NumPlugins == 3      \* how many distinct plugin directory names exist

(***************************************************************************)
(* Small data universes.                                                   *)
(***************************************************************************)
AllNames ==
    << <<"f","o","o">>, <<"b","a","r">>, <<"b","a","z">>,
       <<"q","u","x">>, <<"z","a","p">>, <<"z","i","p">> >>

PluginNames == { AllNames[i] : i \in 1..NumPlugins }

None == "<none>"     \* Python's None / an absent optional field

\* the fields of MCPInfo that add_plugin reads
InfoBare == [name |-> <<"F","o","o">>, description |-> "", homepage |-> None]
InfoFull == [name |-> <<"F","o","o">>, description |-> "Slack MCP",
             homepage |-> "https://github.com/o/r"]

\* add_plugin(plugin_path, mcp_info): plugin_path lies inside the marketplace
\* root (relative_to succeeds) or outside it (relative_to raises ValueError)
AddArgs ==
    { [path |-> [inside |-> io[1], name |-> n], info |-> io[2]] :
        n \in PluginNames,
        io \in { <<TRUE, InfoBare>>, <<FALSE, InfoFull>> } }

DefaultName  == "mcp2plugin-marketplace"
DefaultOwner == "mcp2plugin"
DefaultDesc  == "Converted MCP servers as Claude Code plugins"

\* initialize(name, owner_name, description): the defaults and custom values
InitArgs ==
    { [name |-> DefaultName, owner |-> DefaultOwner, description |-> DefaultDesc],
      [name |-> "my-market", owner |-> "me", description |-> "mine"] }

(***************************************************************************)
(* The catalog file.                                                       *)
(***************************************************************************)
MissingFile == [state |-> "missing", name |-> "", description |-> "",
                owner |-> "", plugins |-> <<>>]

\* MarketplaceConfig(name, description, owner, plugins) as saved
ConfigFile(name, description, owner, plugins) ==
    [state |-> "ok", name |-> name, description |-> description,
     owner |-> owner, plugins |-> plugins]

Exists(d) == d.state # "missing"

\* an empty file: the file between open(path, "w"), which truncates it, and
\* the write; json.load raises on it
TruncatedFile == [MissingFile EXCEPT !.state = "truncated"]

\* a file whose content is no JSON document (overlapping writes, a write
\* that was cut short)
CorruptFile == [MissingFile EXCEPT !.state = "corrupt"]

\* json.load and MarketplaceConfig(**data) succeed on the file
Parses(d) == d.state = "ok"

\* BaseModel.model_dump(exclude_none=True) of a MarketplacePlugin: the JSON
\* object has a key for every field whose value is not None
PluginKeys_ExcludeEmpty(e) ==
    {"name", "source", "description"}
        \cup (IF e.category \notin {None, ""} THEN {"category"} ELSE {})
        \cup (IF e.homepage \notin {None, ""} THEN {"homepage"} ELSE {})

PluginKeys(e) ==
    {"name", "source", "description"}
        \cup (IF e.category # None THEN {"category"} ELSE {})
        \cup (IF e.homepage # None THEN {"homepage"} ELSE {})

DumpPlugin(e) ==
    [k \in PluginKeys(e) |->
        CASE k = "name"        -> e.name
          [] k = "source"      -> e.source
          [] k = "description" -> e.description
          [] k = "category"    -> e.category
          [] k = "homepage"    -> e.homepage]

\* MarketplaceConfig.model_dump: owner.email is None and is left out
DumpConfig(config) ==
    [name        |-> config.name,
     description |-> config.description,
     owner       |-> [name |-> config.owner],
     plugins     |-> [i \in 1..Len(config.plugins) |-> DumpPlugin(config.plugins[i])]]

\* MarketplacePlugin(**data): an absent optional key takes the default None
ParsePlugin(j) ==
    [name        |-> j["name"],
     source      |-> j["source"],
     description |-> j["description"],
     category    |-> IF "category" \in DOMAIN j THEN j["category"] ELSE None,
     homepage    |-> IF "homepage" \in DOMAIN j THEN j["homepage"] ELSE None]

\* MarketplaceConfig(**data) on the document json.load returns
ParseConfig(doc) ==
    ConfigFile(doc.name, doc.description, doc.owner.name,
               [i \in 1..Len(doc.plugins) |-> ParsePlugin(doc.plugins[i])])

\* Marketplace._save_config: the whole file is rewritten with the dump of
\* the config.  A file that holds a document is represented by the
\* MarketplaceConfig that document parses to.
SaveConfig(d, config) == ParseConfig(DumpConfig(config))

\* Marketplace.initialize: write a fresh catalog only if the file is absent
Initialize_Overwrite(d, name, owner, description) ==
    SaveConfig(d, ConfigFile(name, description, owner, <<>>))

Initialize(d, name, owner, description) ==
    IF ~Exists(d)
    THEN SaveConfig(d, ConfigFile(name, description, owner, <<>>))
    ELSE d

\* Marketplace._load_config: auto-initialise a missing file, then read it.
\* Yields the file after the possible initialisation; the config read is
\* that file's content.
LoadConfig_Repair(d) ==
    IF ~Parses(d) THEN SaveConfig(d, ConfigFile(DefaultName, DefaultDesc, DefaultOwner, <<>>))
    ELSE d

LoadConfig(d) ==
    IF ~Exists(d) THEN Initialize(d, DefaultName, DefaultOwner, DefaultDesc)
    ELSE d

\* _load_config, lines 139-142: json.load or MarketplaceConfig(**data) raises
\* on a file that holds no catalog document; the exception is caught nowhere
\* in Marketplace
LoadRaises(d) == ~Parses(LoadConfig(d))

\* "MCP server: {name}" : the description used when the record has none
FallbackDescription(name) == [text |-> "MCP server: ", name |-> name]

\* mcp_info.description or f"MCP server: {mcp_info.name}"
DescriptionOr(description, name) ==
    IF description # "" THEN [text |-> description, name |-> <<>>]
    ELSE FallbackDescription(name)

\* the MarketplacePlugin entry add_plugin builds (lines 60-75)
PluginEntry_RecordName(path, info) ==
    [name        |-> info.name,
     source      |-> IF path.inside
                     THEN [relative |-> TRUE,  parent |-> "./plugins", name |-> path.name]
                     ELSE [relative |-> FALSE, parent |-> "/elsewhere", name |-> path.name],
     description |-> DescriptionOr(info.description, info.name),
     category    |-> "mcp",
     homepage    |-> info.homepage]

PluginEntry(path, info) ==
    [name        |-> path.name,
     source      |-> IF path.inside
                     THEN [relative |-> TRUE,  parent |-> "./plugins", name |-> path.name]
                     ELSE [relative |-> FALSE, parent |-> "/elsewhere", name |-> path.name],
     description |-> DescriptionOr(info.description, info.name),
     category    |-> "mcp",
     homepage    |-> info.homepage]

\* the catalog has an entry with the name; the index of the first one
HasName(plugins, n) == \E i \in 1..Len(plugins) : plugins[i].name = n

IndexOfName(plugins, n) ==
    CHOOSE i \in 1..Len(plugins) :
        /\ plugins[i].name = n
        /\ \A j \in 1..(i - 1) : plugins[j].name # n

\* the index of the first entry with the name, 0 when there is none
\* (the for/break loop of add_plugin, lines 78-82)
ExistingIdx_BySource(plugins, entry) ==
    LET hits == { i \in 1..Len(plugins) : plugins[i].source = entry.source }
    IN  IF hits = {} THEN 0 ELSE CHOOSE i \in hits : \A j \in hits : i <= j

ExistingIdx(plugins, entry) ==
    LET hits == { i \in 1..Len(plugins) : plugins[i].name = entry.name }
    IN  IF hits = {} THEN 0 ELSE CHOOSE i \in hits : \A j \in hits : i <= j

\* replace in place or append (lines 84-87)
Upsert_RemoveThenAppend(plugins, entry) ==
    SelectSeq(plugins, LAMBDA p : p.name # entry.name) \o <<entry>>

Upsert(plugins, entry) ==
    LET idx == ExistingIdx(plugins, entry)
    IN  IF idx # 0 THEN [plugins EXCEPT ![idx] = entry]
        ELSE Append(plugins, entry)

\* Marketplace.add_plugin as a whole: load, upsert, save; nothing is saved
\* when the load raises
AddPluginTo_FreshCatalog(d, path, info) ==
    LET config == LoadConfig(d)
    IN  IF ~Parses(config) THEN config
        ELSE SaveConfig(config,
                   ConfigFile(DefaultName, DefaultDesc, DefaultOwner,
                              Upsert(config.plugins, PluginEntry(path, info))))

AddPluginTo(d, path, info) ==
    LET config == LoadConfig(d)
    IN  IF ~Parses(config) THEN config
        ELSE SaveConfig(config,
                   [config EXCEPT !.plugins = Upsert(config.plugins, PluginEntry(path, info))])

\* Marketplace.remove_plugin: the filtered list, saved only if it got shorter
RemovePluginFrom_First(d, name) ==
    LET config == LoadConfig(d)
        idx    == IF HasName(config.plugins, name)
                  THEN IndexOfName(config.plugins, name) ELSE 0
        kept   == [i \in 1..(Len(config.plugins) - 1) |->
                      IF i < idx THEN config.plugins[i] ELSE config.plugins[i + 1]]
    IN  IF Parses(config) /\ idx # 0
        THEN SaveConfig(config, [config EXCEPT !.plugins = kept])
        ELSE config

RemovePluginFrom(d, name) ==
    LET config == LoadConfig(d)
        kept   == SelectSeq(config.plugins, LAMBDA p : p.name # name)
    IN  IF Parses(config) /\ Len(kept) < Len(config.plugins)
        THEN SaveConfig(config, [config EXCEPT !.plugins = kept])
        ELSE config

RemovePluginReturns(d, name) ==
    LET config == LoadConfig(d)
    IN  Len(SelectSeq(config.plugins, LAMBDA p : p.name # name)) < Len(config.plugins)

\* MarketplacePlugin.model_dump(): BaseModel's own dump, every field a key,
\* None values included
ModelDump(e) ==
    [k \in {"name", "source", "description", "category", "homepage"} |-> e[k]]

\* Marketplace.list_plugins: the dumps of the loaded entries, in order
ListPluginsReturns(d) ==
    LET config == LoadConfig(d)
    IN  [i \in 1..Len(config.plugins) |-> ModelDump(config.plugins[i])]

(***************************************************************************)
(* URLs (utils/url_parser.py).  A URL is a sequence of tokens: "/" and " " *)
(* (white space) stand for themselves, every other token is a run of       *)
(* characters that are neither.  The regular expressions of the code are   *)
(* matched token by token.                                                 *)
(***************************************************************************)
DigitTokens == {"217", "7"}

\* the token at position i, "" past the end of the string
Tok(u, i) == IF i \in 1..Len(u) THEN u[i] ELSE ""

\* [^/\s]
IsNameTok(t) == t \notin {"/", " ", ""}

IsDigitTok(t) == t \in DigitTokens

\* the end of the longest run of name tokens that starts at i (i - 1 when
\* there is none)
RECURSIVE NameRunEnd(_, _)
NameRunEnd(u, i) ==
    IF i <= Len(u) /\ IsNameTok(u[i]) THEN NameRunEnd(u, i + 1) ELSE i - 1

\* the same for (\d+)
RECURSIVE DigitRunEnd(_, _)
DigitRunEnd(u, i) ==
    IF i <= Len(u) /\ IsDigitTok(u[i]) THEN DigitRunEnd(u, i + 1) ELSE i - 1

\* ([^/\s]+) matched at i: the longest run of name tokens from i
NameRun(u, i) == SubSeq(u, i, NameRunEnd(u, i))

\* https?://
HttpScheme(u) == Tok(u, 1) \in {"http:", "https:"} /\ Tok(u, 2) = "/" /\ Tok(u, 3) = "/"

NoMatch == [ok |-> FALSE, id |-> <<>>, name |-> <<>>]

\* FASTMCP_PATTERN.match(url):
\* https?://(?:www\.)?fastmcp\.me/MCP/Details/(\d+)/([^/\s]+)
FastMCPMatch_NoWww(u) ==
    LET e == DigitRunEnd(u, 10)
    IN  IF /\ HttpScheme(u)
           /\ Tok(u, 4) = "fastmcp.me" /\ Tok(u, 5) = "/"
           /\ Tok(u, 6) = "MCP"    /\ Tok(u, 7) = "/"
           /\ Tok(u, 8) = "Details" /\ Tok(u, 9) = "/"
           /\ e >= 10
           /\ Tok(u, e + 1) = "/"
           /\ IsNameTok(Tok(u, e + 2))
        THEN [ok |-> TRUE, id |-> SubSeq(u, 10, e), name |-> NameRun(u, e + 2)]
        ELSE NoMatch

FastMCPMatch(u) ==
    LET h == IF Tok(u, 4) = "www." THEN 5 ELSE 4
        e == DigitRunEnd(u, h + 6)
    IN  IF /\ HttpScheme(u)
           /\ Tok(u, h) = "fastmcp.me" /\ Tok(u, h + 1) = "/"
           /\ Tok(u, h + 2) = "MCP"    /\ Tok(u, h + 3) = "/"
           /\ Tok(u, h + 4) = "Details" /\ Tok(u, h + 5) = "/"
           /\ e >= h + 6
           /\ Tok(u, e + 1) = "/"
           /\ IsNameTok(Tok(u, e + 2))
        THEN [ok |-> TRUE, id |-> SubSeq(u, h + 6, e), name |-> NameRun(u, e + 2)]
        ELSE NoMatch

\* SMITHERY_PATTERN.match(url):
\* https?://(?:server\.)?smithery\.ai/(?:server/)?([^/\s]+)
SmitheryMatch(u) ==
    LET h == IF Tok(u, 4) = "server." THEN 5 ELSE 4
    IN  IF /\ HttpScheme(u)
           /\ Tok(u, h) = "smithery.ai" /\ Tok(u, h + 1) = "/"
        THEN IF /\ Tok(u, h + 2) = "server" /\ Tok(u, h + 3) = "/"
                /\ IsNameTok(Tok(u, h + 4))
             THEN [ok |-> TRUE, id |-> <<>>, name |-> NameRun(u, h + 4)]
             ELSE IF IsNameTok(Tok(u, h + 2))
             THEN [ok |-> TRUE, id |-> <<>>, name |-> NameRun(u, h + 2)]
             ELSE NoMatch
        ELSE NoMatch

\* detect_source
detect_source(u) ==
    IF FastMCPMatch(u).ok THEN "fastmcp"
    ELSE IF SmitheryMatch(u).ok THEN "smithery"
    ELSE "unknown"

\* re.search(r"server\.smithery\.ai/([^/\s]+)", url): the leftmost position
\* of the alias host followed by a name, 0 if there is none
AliasAt(u) ==
    LET hits == { i \in 1..Len(u) :
                    /\ u[i] = "server." /\ Tok(u, i + 1) = "smithery.ai"
                    /\ Tok(u, i + 2) = "/" /\ IsNameTok(Tok(u, i + 3)) }
    IN  IF hits = {} THEN 0 ELSE CHOOSE i \in hits : \A j \in hits : i <= j

\* "server.smithery.ai" in url
HasAliasHost(u) ==
    \E i \in 1..Len(u) : u[i] = "server." /\ Tok(u, i + 1) = "smithery.ai"

CanonicalSmithery_AliasHost(name) ==
    <<"https:", "/", "/", "server.", "smithery.ai", "/", "server", "/">> \o name

CanonicalSmithery(name) == <<"https:", "/", "/", "smithery.ai", "/", "server", "/">> \o name

\* normalize_url
normalize_url(u) ==
    IF HasAliasHost(u) /\ AliasAt(u) # 0
    THEN CanonicalSmithery(NameRun(u, AliasAt(u) + 3))
    ELSE u

\* FastMCPSource.can_handle / SmitherySource.can_handle
FastMCPCanHandle(u)  == FastMCPMatch(u).ok
SmitheryCanHandle(u) == SmitheryMatch(u).ok

\* Converter._get_source: the first of [FastMCPSource, SmitherySource] whose
\* can_handle accepts the URL, None if neither does
GetSource(u) ==
    IF FastMCPCanHandle(u) THEN "fastmcp"
    ELSE IF SmitheryCanHandle(u) THEN "smithery"
    ELSE None

(***************************************************************************)
(* Names (core/plugin_generator.py, models/mcp_info.py).  A name is a      *)
(* sequence of characters.                                                 *)
(***************************************************************************)
UpperCase == {"M", "C", "P", "S"}
LowerOf(c) ==
    CASE c = "M" -> "m" [] c = "C" -> "c" [] c = "P" -> "p" [] c = "S" -> "s"
      [] OTHER -> c

SpaceChars   == {" ", "\t"}                  \* \s
SpecialChars == {"!", ".", "/", "@", ":"}    \* neither \w nor \s nor "-"

IsWordChar(c) == c \notin SpaceChars /\ c \notin SpecialChars /\ c # "-"   \* \w

\* str.lower()
Lower(name) == [i \in 1..Len(name) |-> LowerOf(name[i])]

\* re.sub(r"[^\w\s-]", "", name)
DropSpecial(name) == SelectSeq(name, LAMBDA c : c \notin SpecialChars)

IsSpaceOrUnderscore(c) == c \in SpaceChars \/ c = "_"

\* re.sub(r"[\s_]+", "-", name): every maximal run of white space and
\* underscores becomes one hyphen
RECURSIVE CollapseSpaces(_)
CollapseSpaces(name) ==
    IF name = <<>> THEN <<>>
    ELSE IF IsSpaceOrUnderscore(Head(name))
    THEN IF Len(name) > 1 /\ IsSpaceOrUnderscore(name[2])
         THEN CollapseSpaces(Tail(name))
         ELSE <<"-">> \o CollapseSpaces(Tail(name))
    ELSE <<Head(name)>> \o CollapseSpaces(Tail(name))

\* re.sub(r"-+", "-", name)
CollapseHyphens_Keep(name) == name

RECURSIVE CollapseHyphens(_)
CollapseHyphens(name) ==
    IF name = <<>> THEN <<>>
    ELSE IF Head(name) = "-" /\ Len(name) > 1 /\ name[2] = "-"
    THEN CollapseHyphens(Tail(name))
    ELSE <<Head(name)>> \o CollapseHyphens(Tail(name))

\* str.strip("-")
RECURSIVE StripHyphens(_)
StripHyphens(name) ==
    IF name = <<>> THEN <<>>
    ELSE IF Head(name) = "-" THEN StripHyphens(Tail(name))
    ELSE IF name[Len(name)] = "-" THEN StripHyphens(SubSeq(name, 1, Len(name) - 1))
    ELSE name

UnknownPlugin == <<"u","n","k","n","o","w","n","-","p","l","u","g","i","n">>

\* PluginGenerator._sanitize_name
sanitize_name(name) ==
    LET s1 == DropSpecial(Lower(name))
        s2 == CollapseSpaces(s1)
        s3 == CollapseHyphens(s2)
        s4 == StripHyphens(s3)
    IN  IF s4 # <<>> THEN s4 ELSE UnknownPlugin

\* MCPInfo.get_server_name: lower, " " and "_" to "-"
get_server_name(name) ==
    [i \in 1..Len(name) |->
        IF LowerOf(name[i]) \in {" ", "_"} THEN "-" ELSE LowerOf(name[i])]

(***************************************************************************)
(* Server records (models/mcp_info.py) and the two extractors              *)
(* (sources/fastmcp.py, sources/smithery.py).  A fetched page is modelled  *)
(* by what the extractors' DOM queries and regular expressions find in it. *)
(* A text that embeds a name is the record [text, name]: the literal text  *)
(* followed by the name.                                                   *)
(***************************************************************************)
Lit(t)  == [text |-> t, name |-> <<>>]
NoText  == Lit(None)

Tool1 == [name |-> "get_file", description |-> "Reads a file"]
Tool2 == [name |-> "search", description |-> ""]

LongDesc == "Pack a repo into AI-friendly text"
GithubPage == "https://github.com/o/r"

NoPage == [h1 |-> <<>>, meta |-> "", author |-> "", tools |-> <<>>, commands |-> {},
           pkgHint |-> FALSE, hosted |-> FALSE, mcpUrl |-> None, env |-> {},
           github |-> None]

\* what a page can hold: a heading, a description, tool sections, install
\* command lines, evidence of a hosted deployment, environment variables and
\* a link to a code host
Pages ==
    { [NoPage EXCEPT !.h1 = <<"M","y"," ","M","C","P","!">>, !.meta = LongDesc,
                     !.author = "alice", !.tools = <<Tool1>>,
                     !.commands = {"npx -y", "uvx"}, !.env = {"API_KEY"},
                     !.github = GithubPage],
      NoPage,
      [NoPage EXCEPT !.h1 = <<"S"," ","x">>, !.meta = "Slack MCP",
                     !.commands = {"npm install"}],
      [NoPage EXCEPT !.meta = LongDesc, !.tools = <<Tool1>>, !.hosted = TRUE,
                     !.mcpUrl = "https://x/mcp", !.github = GithubPage] }

\* the package each install-command regex captures
PackageOf(form) == Lit("pkg-of " \o form)

\* FastMCPSource._extract_install_command: the patterns in their order,
\* then the package-name patterns, then the default
FastMCPInstall(page, mcp_name) ==
    IF "npx -y" \in page.commands   THEN <<"npx", <<Lit("-y"), PackageOf("npx -y")>>>>
    ELSE IF "uvx" \in page.commands THEN <<"uvx", <<PackageOf("uvx")>>>>
    ELSE IF "bunx" \in page.commands THEN <<"bunx", <<PackageOf("bunx")>>>>
    ELSE IF "npm exec" \in page.commands
         THEN <<"npm", <<Lit("exec"), PackageOf("npm exec")>>>>
    ELSE IF page.pkgHint THEN <<"npx", <<Lit("-y"), Lit("package named on the page")>>>>
    ELSE <<"npx", <<Lit("-y"), [text |-> "mcp-server-", name |-> Lower(mcp_name)]>>>>

\* FastMCPSource.fetch, lines 36-107, on a page fetched successfully
FastMCPFetch(url, page) ==
    LET mcp_name == FastMCPMatch(url).name
        install  == FastMCPInstall(page, mcp_name)
    IN  [name            |-> IF page.h1 # <<>> THEN page.h1 ELSE mcp_name,
         description     |-> page.meta,
         author          |-> page.author,
         tools           |-> page.tools,
         install_command |-> install[1],
         install_args    |-> install[2],
         connection_type |-> IF page.mcpUrl # None THEN "http" ELSE "stdio",
         http_url        |-> IF page.mcpUrl # None THEN Lit(page.mcpUrl) ELSE NoText,
         env_vars        |-> page.env,
         homepage        |-> page.github,
         source_url      |-> url]

\* SmitherySource._determine_connection
SmitheryConnection_HostedNoUrl(page, server_name) ==
    IF page.hosted
    THEN <<"http", "", <<>>, NoText>>
    ELSE <<"stdio", "npx", <<Lit("-y"), Lit("@smithery/cli"), Lit("run"),
                             [text |-> "", name |-> server_name]>>, NoText>>

SmitheryConnection(page, server_name) ==
    IF page.hosted
    THEN <<"http", "", <<>>, [text |-> "https://server.smithery.ai/", name |-> server_name]>>
    ELSE IF "smithery-cli install" \in page.commands
    THEN <<"stdio", "npx", <<Lit("-y"), Lit("@smithery/cli"), Lit("run"),
                             PackageOf("smithery-cli install")>>, NoText>>
    ELSE IF "npx -y" \in page.commands
    THEN <<"stdio", "npx", <<Lit("-y"), PackageOf("npx -y")>>, NoText>>
    ELSE IF "npm install" \in page.commands
    THEN <<"stdio", "npx", <<Lit("-y"), PackageOf("npm install")>>, NoText>>
    ELSE <<"stdio", "npx", <<Lit("-y"), Lit("@smithery/cli"), Lit("run"),
                             [text |-> "", name |-> server_name]>>, NoText>>

\* SmitherySource.fetch, lines 29-102, on a page fetched successfully
SmitheryFetch(url, page) ==
    LET canonical   == normalize_url(url)
        server_name == SmitheryMatch(canonical).name
        conn        == SmitheryConnection(page, server_name)
    IN  [name            |-> IF page.h1 # <<>> THEN page.h1 ELSE server_name,
         description     |-> page.meta,
         author          |-> page.author,
         tools           |-> page.tools,
         install_command |-> conn[2],
         install_args    |-> conn[3],
         connection_type |-> conn[1],
         http_url        |-> conn[4],
         env_vars        |-> page.env,
         homepage        |-> page.github,
         source_url      |-> canonical]

SourceFetch(source, url, page) ==
    IF source = "fastmcp" THEN FastMCPFetch(url, page) ELSE SmitheryFetch(url, page)

NoInfo == [name |-> <<>>, description |-> "", author |-> "", tools |-> <<>>,
           install_command |-> "", install_args |-> <<>>, connection_type |-> "",
           http_url |-> NoText, env_vars |-> {}, homepage |-> None, source_url |-> <<>>]

(***************************************************************************)
(* The LLM enhancement adapter (llm/gemini.py).  The provider's answer is  *)
(* the environment's choice: the call raises or the text is no JSON object *)
(* ("error"), or it is a JSON object with some of the four keys; a tools   *)
(* list may hold an item without "name" (broken).                          *)
(***************************************************************************)
NoAnswer == [kind |-> "json", description |-> "", tools |-> <<>>, broken |-> FALSE,
             install_command |-> "", install_args |-> <<>>]

\* descriptions of 19 and of 20 characters, on either side of the test of
\* Converter.convert, line 109
Desc19 == "LLM: describes MCPs"
Desc20 == "LLM: describes a MCP"

EnhanceAnswers ==
    { [NoAnswer EXCEPT !.kind = "error"],
      NoAnswer,
      [NoAnswer EXCEPT !.description = Desc19],
      [NoAnswer EXCEPT !.description = Desc20,
                       !.tools = <<Tool2>>, !.install_command = "uvx",
                       !.install_args = <<Lit("llm-pkg")>>],
      [NoAnswer EXCEPT !.description = "LLM: short", !.tools = <<Tool2>>,
                       !.broken = TRUE, !.install_command = "uvx"] }

\* enhance_mcp_info, lines 111-115
NeedsEnhancement_AlsoEnv(info) ==
    \/ info.description = "" \/ info.tools = <<>> \/ info.install_command = ""
    \/ info.env_vars = {}

NeedsEnhancement(info) ==
    info.description = "" \/ info.tools = <<>> \/ info.install_command = ""

\* enhance_mcp_info, lines 159-173: each field is filled only if it is empty
\* and the answer has a value for it.  Building the tools list raises on a
\* broken item; the except clause of line 175 ends the merge there.
ApplyEnhancements_Overwrite(info, ans) ==
    [info EXCEPT !.description = IF ans.description # "" THEN ans.description ELSE @,
                 !.install_command = IF ans.install_command # "" THEN ans.install_command ELSE @]

ApplyEnhancements(info, ans) ==
    LET withDesc == IF info.description = "" /\ ans.description # ""
                    THEN [info EXCEPT !.description = ans.description] ELSE info
        fillTools == info.tools = <<>> /\ ans.tools # <<>>
        withTools == IF fillTools THEN [withDesc EXCEPT !.tools = ans.tools] ELSE withDesc
        withCmd   == IF info.install_command = "" /\ ans.install_command # ""
                     THEN [withTools EXCEPT !.install_command = ans.install_command]
                     ELSE withTools
        withArgs  == IF info.install_args = <<>> /\ ans.install_args # <<>>
                     THEN [withCmd EXCEPT !.install_args = ans.install_args]
                     ELSE withCmd
    IN  IF fillTools /\ ans.broken THEN withDesc ELSE withArgs

\* enhance_mcp_info: the record returned, for the provider's answer
enhance_mcp_info(info, ans) ==
    IF ~NeedsEnhancement(info) THEN info
    ELSE IF ans.kind = "error" THEN info
    ELSE ApplyEnhancements(info, ans)

\* enhance_mcp_info, lines 142-177: the provider call, json.loads or the
\* tools comprehension raised inside the try block
EnhanceRaises(info, ans) ==
    /\ NeedsEnhancement(info)
    /\ \/ ans.kind = "error"
       \/ info.tools = <<>> /\ ans.tools # <<>> /\ ans.broken

\* the number of requests enhance_mcp_info sends to the provider
EnhanceRequests(info) == IF NeedsEnhancement(info) THEN 1 ELSE 0

\* Converter.convert, line 109: the description needs polishing
NeedsPolish_AtMost20(info) == info.description = "" \/ Len(info.description) <= 20

NeedsPolish(info) == info.description = "" \/ Len(info.description) < 20

\* generate_plugin_description: raises, or returns response.text.strip()
PolishAnswers == {"<raise>", "", "LLM: a polished description of the plugin"}

(***************************************************************************)
(* SpecEnhance: GeminiParser.enhance_mcp_info called on any record, with   *)
(* any answer of the provider.                                             *)
(***************************************************************************)
EnhanceInputs ==
    { [NoInfo EXCEPT !.name = <<"S","_","x">>, !.description = d, !.tools = t,
                     !.install_command = c[1], !.install_args = c[2],
                     !.connection_type = "stdio"] :
        d \in {"", "Slack MCP", LongDesc},
        t \in {<<>>, <<Tool1>>},
        c \in { <<"", <<>>>>, <<"npx", <<>>>>, <<"", <<Lit("x")>>>>,
                <<"npx", <<Lit("-y"), Lit("pkg")>>>> } }

\* answers with every combination of the four keys, broken tools lists, and
\* failures
AllAnswers ==
    { [kind |-> k, description |-> d, tools |-> t[1], broken |-> t[2],
       install_command |-> c, install_args |-> a] :
        k \in {"json"},
        d \in {"", "LLM: short"},
        t \in { <<<<>>, FALSE>>, <<<<Tool2>>, FALSE>>, <<<<Tool2>>, TRUE>> },
        c \in {"", "uvx"},
        a \in {<<>>, <<Lit("llm-pkg")>>} }
    \cup { [NoAnswer EXCEPT !.kind = "error"] }

NoEnhanceCall == [pc |-> "idle", before |-> NoInfo, answer |-> NoAnswer,
                  after |-> NoInfo, requests |-> 0]

(***************************************************************************)
(* The descriptor builder (core/plugin_generator.py).                      *)
(***************************************************************************)
NoServer == [type |-> None, url |-> NoText, command |-> None,
             args |-> [present |-> FALSE, value |-> <<>>],
             env |-> [present |-> FALSE, value |-> {}]]

\* _create_plugin_config, lines 58-72: the MCPServerConfig, None fields absent
ServerConfig_HttpByType(info, plugin_name) ==
    IF info.connection_type = "http"
    THEN [NoServer EXCEPT !.type = "http", !.url = info.http_url]
    ELSE [NoServer EXCEPT
            !.command = IF info.install_command # "" THEN info.install_command ELSE "npx",
            !.args = [present |-> TRUE,
                      value |-> IF info.install_args # <<>> THEN info.install_args
                                ELSE <<Lit("-y"),
                                       [text |-> "mcp-server-", name |-> plugin_name]>>],
            !.env = IF info.env_vars # {} THEN [present |-> TRUE, value |-> info.env_vars]
                    ELSE @]

ServerConfig(info, plugin_name) ==
    IF info.connection_type = "http" /\ info.http_url \notin {NoText, Lit("")}
    THEN [NoServer EXCEPT !.type = "http", !.url = info.http_url]
    ELSE [NoServer EXCEPT
            !.command = IF info.install_command # "" THEN info.install_command ELSE "npx",
            !.args = [present |-> TRUE,
                      value |-> IF info.install_args # <<>> THEN info.install_args
                                ELSE <<Lit("-y"),
                                       [text |-> "mcp-server-", name |-> plugin_name]>>],
            !.env = IF info.env_vars # {} THEN [present |-> TRUE, value |-> info.env_vars]
                    ELSE @]

\* MCPServerConfig.model_dump (exclude_none) and the filter of
\* PluginConfig.model_dump, line 49: the keys of the emitted server config
ServerKeys(server) ==
    (IF server.type # None THEN {"type"} ELSE {})
        \cup (IF server.url # NoText THEN {"url"} ELSE {})
        \cup (IF server.command # None THEN {"command"} ELSE {})
        \cup (IF server.args.present THEN {"args"} ELSE {})
        \cup (IF server.env.present THEN {"env"} ELSE {})

\* "github" in homepage
ContainsGithub(homepage) == homepage = GithubPage

\* _create_plugin_config: the PluginConfig as dumped to plugin.json
PluginConfig(info, plugin_name) ==
    [name        |-> plugin_name,
     description |-> DescriptionOr(info.description, info.name),
     version     |-> "1.0.0",
     author      |-> IF info.author # "" THEN info.author ELSE None,
     homepage    |-> info.homepage,
     repository  |-> IF info.homepage # None /\ ContainsGithub(info.homepage)
                     THEN info.homepage ELSE None,
     server_name |-> get_server_name(info.name),
     server      |-> ServerConfig(info, plugin_name)]

(***************************************************************************)
(* The state of a conversion (core/converter.py).                          *)
(***************************************************************************)
EmptyDir == [exists |-> FALSE, plugins |-> {}]   \* plugins: <<dir, plugin.json>> pairs

NoRequests == [fetches |-> 0, llm |-> 0]

NoResult == [kind |-> "none", error |-> "", msg |-> ""]

NoConverter ==
    [pc |-> "new", runs |-> 0, mode |-> "", use_llm |-> FALSE, parser |-> FALSE,
     inside |-> TRUE, url0 |-> <<>>, url |-> <<>>, source |-> None,
     fetched |-> NoInfo, fetch_exc |-> "", info |-> NoInfo, merged |-> NoInfo,
     llm_raised |-> "",
     plugin_dir |-> <<>>, stages |-> <<>>,
     result |-> NoResult,
     pre |-> [disk |-> MissingFile, fs |-> EmptyDir],
     atCall |-> [disk |-> MissingFile, fs |-> EmptyDir]]

\* no pure function has been called; arg tells which argument is given
NoPureCall ==
    [pc |-> "idle", arg |-> "", url |-> <<>>, outs |-> <<>>, kind |-> "",
     handles |-> FALSE, name |-> <<>>, clean |-> <<>>, info |-> NoInfo,
     dir |-> <<>>, server |-> NoServer,
     source |-> "", page |-> NoPage, install |-> <<"", <<>>>>]

\* the plugin.json of directory dir, NoPluginJson if there is none
NoPluginJson == PluginConfig(NoInfo, <<>>)

HasPluginDir(f, dir) == \E e \in f.plugins : e[1] = dir

PluginJson(f, dir) ==
    IF HasPluginDir(f, dir) THEN (CHOOSE e \in f.plugins : e[1] = dir)[2]
    ELSE NoPluginJson

\* PluginGenerator._write_json into <output_dir>/<dir>/.claude-plugin/plugin.json:
\* open(path, "w") replaces whatever the file held
WritePluginJson_Merge(f, dir, json) ==
    LET old    == PluginJson(f, dir)
        merged == [json EXCEPT !.author     = IF @ = None THEN old.author ELSE @,
                               !.homepage   = IF @ = None THEN old.homepage ELSE @,
                               !.repository = IF @ = None THEN old.repository ELSE @]
    IN  [f EXCEPT !.plugins = { e \in f.plugins : e[1] # dir }
                                  \cup { <<dir, IF HasPluginDir(f, dir) THEN merged ELSE json>> }]

WritePluginJson(f, dir, json) ==
    [f EXCEPT !.plugins = { e \in f.plugins : e[1] # dir } \cup { <<dir, json>> }]

(***************************************************************************)
(* Spec: the catalog API called one call at a time on one catalog root.    *)
(***************************************************************************)
NoEntry == [name |-> <<>>, source |-> [relative |-> TRUE, parent |-> "", name |-> <<>>],
            description |-> [text |-> "", name |-> <<>>], category |-> "",
            homepage |-> None]

NoArgs == [name |-> "", owner |-> "", description |-> ""]

NoGot == [found |-> FALSE, plugin |-> NoEntry]

NoCall == [op |-> "none", args |-> NoArgs, entry |-> NoEntry, name |-> <<>>,
           pre |-> MissingFile, ret |-> FALSE, raised |-> FALSE,
           out |-> <<>>, got |-> NoGot, saved |-> MissingFile]

\* the history of first-insertion positions after a call turned the list
\* `old` into `new`
BornAfter(b, old, new) ==
    [n \in PluginNames |->
        IF ~HasName(new, n) THEN 0
        ELSE IF ~HasName(old, n) THEN IndexOfName(new, n)
        ELSE IF Len(new) < Len(old) /\ IndexOfName(new, n) # IndexOfName(old, n) THEN 0
        ELSE b[n]]

Writers == {1, 2}     \* the two concurrent callers of add_plugin

IdleProcs == [p \in Writers |-> [pc |-> "idle", args |-> CHOOSE a \in AddArgs : TRUE,
                                  loaded |-> MissingFile, config |-> MissingFile]]

Init ==
    /\ disk = MissingFile
    /\ last = NoCall
    /\ born = [n \in PluginNames |-> 0]
    /\ procs = IdleProcs
    /\ log = <<>>
    /\ fs = EmptyDir
    /\ conv = NoConverter
    /\ net = NoRequests
    /\ enh = NoEnhanceCall
    /\ pure = NoPureCall

\* Marketplace.initialize(name, owner_name, description)
InitializeCall ==
    \E a \in InitArgs :
        /\ disk' = Initialize(disk, a.name, a.owner, a.description)
        /\ last' = [NoCall EXCEPT !.op = "initialize", !.pre = disk, !.args = a]
        /\ UNCHANGED <<born, raceVars, convVars>>

\* Converter.__init__: Marketplace(path).initialize() with the defaults
ConverterInitCall ==
    /\ disk' = Initialize(disk, DefaultName, DefaultOwner, DefaultDesc)
    /\ last' = [NoCall EXCEPT !.op = "converter_init", !.pre = disk]
    /\ UNCHANGED <<born, raceVars, convVars>>

\* Marketplace.add_plugin(plugin_path, mcp_info): the file and the record of
\* the call
AddPlugin(path, info) ==
    /\ disk' = AddPluginTo(disk, path, info)
    /\ last' = [NoCall EXCEPT !.op = "add_plugin", !.pre = disk,
                              !.name = path.name,
                              !.entry = PluginEntry(path, info),
                              !.raised = LoadRaises(disk)]

AddPluginCall ==
    \E a \in AddArgs :
        /\ AddPlugin(a.path, a.info)
        /\ born' = BornAfter(born, LoadConfig(disk).plugins, disk'.plugins)
        /\ UNCHANGED <<raceVars, convVars>>

\* Marketplace.remove_plugin(name): the file and the record of the call
RemovePlugin(n) ==
    /\ disk' = RemovePluginFrom(disk, n)
    /\ last' = [NoCall EXCEPT !.op = "remove_plugin", !.pre = disk, !.name = n,
                              !.raised = LoadRaises(disk),
                              !.ret = ~LoadRaises(disk) /\ RemovePluginReturns(disk, n)]

RemovePluginCall ==
    \E n \in PluginNames :
        /\ RemovePlugin(n)
        /\ born' = BornAfter(born, LoadConfig(disk).plugins, disk'.plugins)
        /\ UNCHANGED <<raceVars, convVars>>

Next ==
    \/ InitializeCall
    \/ ConverterInitCall
    \/ AddPluginCall
    \/ RemovePluginCall

Spec == Init /\ [][Next]_vars

(***************************************************************************)
(* SpecStore: every operation of Marketplace, on a root whose catalog file *)
(* is missing, holds no document, or holds a catalog written by hand       *)
(* (several entries of one name, optional fields absent).                  *)
(***************************************************************************)
\* entries as add_plugin builds them, and as MarketplacePlugin allows them:
\* category left at its default None, homepage the empty string
StoreEntry(i, inside, info) == PluginEntry([inside |-> inside, name |-> AllNames[i]], info)

HandMadeEntry(i) ==
    [StoreEntry(i, TRUE, InfoBare) EXCEPT !.category = None, !.homepage = ""]

\* the configs a caller passes to _save_config
StoreConfigs ==
    { ConfigFile(DefaultName, DefaultDesc, DefaultOwner, plugins) :
        plugins \in { <<>>,
                      << StoreEntry(1, TRUE, InfoFull) >>,
                      << StoreEntry(2, FALSE, InfoFull), StoreEntry(1, TRUE, InfoBare) >>,
                      << HandMadeEntry(1), StoreEntry(2, TRUE, InfoBare),
                         StoreEntry(1, FALSE, InfoFull) >> } }

\* the names the callers use: the two names of the hand-written catalogs and
\* a name no catalog holds at the start
StoreNames == { AllNames[1], AllNames[2], AllNames[3] }

StoreAddArgs ==
    { [path |-> [inside |-> io[1], name |-> n], info |-> io[2]] :
        n \in {AllNames[2], AllNames[3]},
        io \in { <<TRUE, InfoBare>>, <<FALSE, InfoFull>> } }

\* what the file can hold when a Marketplace is constructed on the root
StoreStartFiles == { MissingFile, TruncatedFile, CorruptFile } \cup StoreConfigs

InitStore ==
    /\ disk \in StoreStartFiles
    /\ last = NoCall
    /\ born = [n \in PluginNames |-> 0]
    /\ procs = IdleProcs
    /\ log = <<>>
    /\ fs = EmptyDir
    /\ conv = NoConverter
    /\ net = NoRequests
    /\ enh = NoEnhanceCall
    /\ pure = NoPureCall

\* Marketplace.get_plugin: the dump of the first loaded entry with the name,
\* or None
GetPluginReturns(d, n) ==
    LET config == LoadConfig(d)
    IN  IF HasName(config.plugins, n)
        THEN [found |-> TRUE, plugin |-> ModelDump(config.plugins[IndexOfName(config.plugins, n)])]
        ELSE NoGot

\* Marketplace.list_plugins()
ListPluginsCall ==
    /\ disk' = LoadConfig(disk)
    /\ last' = [NoCall EXCEPT !.op = "list_plugins", !.pre = disk,
                              !.raised = LoadRaises(disk),
                              !.out = IF LoadRaises(disk) THEN <<>>
                                      ELSE ListPluginsReturns(disk)]
    /\ UNCHANGED <<born, raceVars, convVars>>

\* Marketplace.get_plugin(name)
GetPluginCall ==
    \E n \in StoreNames :
        /\ disk' = LoadConfig(disk)
        /\ last' = [NoCall EXCEPT !.op = "get_plugin", !.pre = disk, !.name = n,
                                  !.raised = LoadRaises(disk),
                                  !.got = IF LoadRaises(disk) THEN NoGot
                                          ELSE GetPluginReturns(disk, n)]
        /\ UNCHANGED <<born, raceVars, convVars>>

\* Marketplace._save_config(config)
SaveConfigCall ==
    \E config \in StoreConfigs :
        /\ disk' = SaveConfig(disk, config)
        /\ last' = [NoCall EXCEPT !.op = "save_config", !.pre = disk, !.saved = config]
        /\ UNCHANGED <<born, raceVars, convVars>>

\* add_plugin and remove_plugin on such a root
StoreAddPluginCall ==
    \E a \in StoreAddArgs :
        /\ AddPlugin(a.path, a.info)
        /\ UNCHANGED <<born, raceVars, convVars>>

StoreRemovePluginCall ==
    \E n \in StoreNames :
        /\ RemovePlugin(n)
        /\ UNCHANGED <<born, raceVars, convVars>>

NextStore ==
    \/ InitializeCall
    \/ StoreAddPluginCall
    \/ StoreRemovePluginCall
    \/ ListPluginsCall
    \/ GetPluginCall
    \/ SaveConfigCall

SpecStore == InitStore /\ [][NextStore]_vars

(***************************************************************************)
(* SpecConvert: processes that each construct a Converter and make one     *)
(* call of convert or get_info, one process after the other, on the same   *)
(* output directory and marketplace root.  Every statement of convert that *)
(* awaits or writes is a step.                                             *)
(***************************************************************************)
MaxRuns == 2       \* how many processes run one after the other

Https == <<"https:", "/", "/">>

\* every process uses the same output directory, which lies inside the
\* marketplace root (the CLI's layout) or outside it (conv.inside).
\* URLs a user can pass: both templates, the alias host, other hosts, the
\* alias host without a scheme, and templates with a part missing
ConvertUrls ==
    { Https \o <<"fastmcp.me", "/", "MCP", "/", "Details", "/", "217", "/", "r", "x">>,
      Https \o <<"smithery.ai", "/", "server", "/", "S", "_", "x">>,
      Https \o <<"server.", "smithery.ai", "/", "s", "l">>,
      Https \o <<"example.com", "/", "s", "l">>,
      <<"server.", "smithery.ai", "/", "s", "l">>,
      Https \o <<"smithery.ai", "/">>,
      Https \o <<"fastmcp.me", "/", "MCP", "/", "Details", "/", "r", "x">> }

InitConvert ==
    /\ disk = MissingFile
    /\ last = NoCall
    /\ born = [n \in PluginNames |-> 0]
    /\ procs = IdleProcs
    /\ log = <<>>
    /\ fs = EmptyDir
    /\ conv \in { [NoConverter EXCEPT !.inside = i] : i \in BOOLEAN }
    /\ net = NoRequests
    /\ enh = NoEnhanceCall
    /\ pure = NoPureCall

ConvFrame == UNCHANGED <<last, born, raceVars, enh, pure>>

Raise_Continue(c, error, msg) ==
    [c EXCEPT !.pc = "generate", !.result = [kind |-> "error", error |-> error, msg |-> msg]]

Raise(c, error, msg) ==
    [c EXCEPT !.pc = "raised", !.result = [kind |-> "error", error |-> error, msg |-> msg]]

\* Converter.__init__, lines 42-56: create the output directory, initialize
\* the marketplace, and build the GeminiParser if use_llm and a key is set
Construct ==
    /\ conv.pc = "new"
    /\ conv.runs < MaxRuns
    /\ \E use_llm \in BOOLEAN, key \in BOOLEAN :
          conv' = [NoConverter EXCEPT !.pc = "ready", !.runs = conv.runs,
                                      !.use_llm = use_llm, !.parser = use_llm /\ key,
                                      !.inside = conv.inside,
                                      !.pre = [disk |-> disk, fs |-> fs]]
    /\ fs' = [fs EXCEPT !.exists = TRUE]
    /\ disk' = Initialize(disk, DefaultName, DefaultOwner, DefaultDesc)
    /\ net' = NoRequests
    /\ ConvFrame

\* the caller invokes convert(url) or get_info(url)
Call ==
    /\ conv.pc = "ready"
    /\ \E url \in ConvertUrls, mode \in {"convert", "get_info"} :
          conv' = [conv EXCEPT !.pc = "normalize", !.mode = mode, !.url0 = url,
                               !.atCall = [disk |-> disk, fs |-> fs]]
    /\ UNCHANGED <<disk, fs, net>>
    /\ ConvFrame

\* convert, line 77; get_info, line 136
Normalize ==
    /\ conv.pc = "normalize"
    /\ conv' = [conv EXCEPT !.url = normalize_url(conv.url0),
                             !.stages = Append(@, "normalize"),
                             !.pc = IF conv.mode = "convert" THEN "classify" ELSE "select"]
    /\ UNCHANGED <<disk, fs, net>>
    /\ ConvFrame

\* convert, lines 80-87
Classify ==
    /\ conv.pc = "classify"
    /\ LET c == [conv EXCEPT !.stages = Append(@, "classify")]
       IN  conv' = IF detect_source(conv.url) = "unknown"
                   THEN Raise(c, "ConversionError", "Unknown URL format: two supported shapes")
                   ELSE [c EXCEPT !.pc = "select"]
    /\ UNCHANGED <<disk, fs, net>>
    /\ ConvFrame

\* convert, lines 90-92; get_info, lines 138-140
Select ==
    /\ conv.pc = "select"
    /\ LET c == [conv EXCEPT !.stages = Append(@, "select")]
       IN  conv' = IF GetSource(conv.url) = None
                   THEN Raise(c, "ConversionError", "No parser available for URL")
                   ELSE [c EXCEPT !.pc = "fetch", !.source = GetSource(conv.url)]
    /\ UNCHANGED <<disk, fs, net>>
    /\ ConvFrame

\* convert, lines 95-100; get_info, line 142: source.fetch(url) requests the
\* page once; it returns the record, raises httpx.HTTPError, or raises another
\* exception.  convert wraps both in ConversionError; get_info lets them pass.
FetchOk ==
    /\ conv.pc = "fetch"
    /\ \E page \in Pages :
          LET info == SourceFetch(conv.source, conv.url, page)
              c    == [conv EXCEPT !.stages = Append(@, "fetch")]
          IN  conv' = IF conv.mode = "convert"
                      THEN [c EXCEPT !.pc = "llm", !.fetched = info, !.info = info]
                      ELSE [c EXCEPT !.pc = "returned", !.fetched = info, !.info = info,
                                     !.stages = Append(@, "return"),
                                     !.result = [NoResult EXCEPT !.kind = "info"]]
    /\ net' = [net EXCEPT !.fetches = @ + 1]
    /\ UNCHANGED <<disk, fs>>
    /\ ConvFrame

\* convert, lines 97-100, and get_info, line 142, when fetch raises exc
OnFetchError_Retry(c, exc) == [c EXCEPT !.fetch_exc = exc]

OnFetchError(c, exc) ==
    LET failed == [c EXCEPT !.fetch_exc = exc]
    IN  IF c.mode = "get_info" THEN Raise(failed, exc, "")
        ELSE IF exc = "HTTPError"
        THEN Raise(failed, "ConversionError", "Failed to fetch URL")
        ELSE Raise(failed, "ConversionError", "Failed to parse MCP page")

FetchFails ==
    /\ conv.pc = "fetch"
    /\ \E exc \in {"HTTPError", "Exception"} :
          conv' = OnFetchError([conv EXCEPT !.stages = Append(@, "fetch")], exc)
    /\ net' = [net EXCEPT !.fetches = @ + 1]
    /\ UNCHANGED <<disk, fs>>
    /\ ConvFrame

\* convert, line 103: if self.gemini_parser and self.use_llm
LlmGate ==
    /\ conv.pc = "llm"
    /\ conv' = [conv EXCEPT !.pc = IF conv.parser /\ conv.use_llm
                                    THEN "fetch_html" ELSE "generate"]
    /\ UNCHANGED <<disk, fs, net>>
    /\ ConvFrame

\* convert, line 105: _fetch_html requests the page again; an exception is
\* caught at line 115
FetchHtml ==
    /\ conv.pc = "fetch_html"
    /\ \E ok \in BOOLEAN :
          LET c == [conv EXCEPT !.stages = Append(@, "fetch_html")]
          IN  conv' = IF ok THEN [c EXCEPT !.pc = "enhance"]
                      ELSE [c EXCEPT !.pc = "generate", !.llm_raised = "fetch_html"]
    /\ net' = [net EXCEPT !.fetches = @ + 1]
    /\ UNCHANGED <<disk, fs>>
    /\ ConvFrame

\* convert, lines 106-109: enhance_mcp_info, then the test of the description.
\* enhance_mcp_info catches what its own try block raises (llm_raised records
\* it) and returns the record as far as it was merged.
Enhance ==
    /\ conv.pc = "enhance"
    /\ \E ans \in EnhanceAnswers :
          LET info == enhance_mcp_info(conv.info, ans)
          IN  conv' = [conv EXCEPT !.info = info, !.merged = info,
                                   !.stages = Append(@, "enhance"),
                                   !.llm_raised = IF EnhanceRaises(conv.info, ans)
                                                  THEN "enhance" ELSE @,
                                   !.pc = IF NeedsPolish(info) THEN "polish" ELSE "generate"]
    /\ net' = [net EXCEPT !.llm = @ + EnhanceRequests(conv.info)]
    /\ UNCHANGED <<disk, fs>>
    /\ ConvFrame

\* convert, lines 110-117: generate_plugin_description; an exception is
\* caught at line 115
Polish ==
    /\ conv.pc = "polish"
    /\ \E ans \in PolishAnswers :
          LET c == [conv EXCEPT !.stages = Append(@, "polish")]
          IN  conv' = IF ans = "<raise>"
                      THEN [c EXCEPT !.pc = "generate", !.llm_raised = "polish"]
                      ELSE [c EXCEPT !.pc = "generate", !.info.description = ans]
    /\ net' = [net EXCEPT !.llm = @ + 1]
    /\ UNCHANGED <<disk, fs>>
    /\ ConvFrame

\* convert, line 120: PluginGenerator.generate builds the descriptor
\* (_create_plugin_config) and then writes plugin.json (_write_json)
Generate ==
    /\ conv.pc = "generate"
    /\ LET dir == sanitize_name(conv.info.name)
       IN  /\ fs' = WritePluginJson(fs, dir, PluginConfig(conv.info, dir))
           /\ conv' = [conv EXCEPT !.pc = "add_plugin", !.plugin_dir = dir,
                                    !.stages = @ \o <<"build", "write">>]
    /\ UNCHANGED <<disk, net>>
    /\ ConvFrame

\* convert, lines 123-125: Marketplace.add_plugin, then return plugin_path
AddToMarketplace ==
    /\ conv.pc = "add_plugin"
    /\ disk' = AddPluginTo(disk, [inside |-> conv.inside, name |-> conv.plugin_dir],
                            conv.info)
    /\ conv' = [conv EXCEPT !.pc = "returned", !.result = [NoResult EXCEPT !.kind = "path"],
                             !.stages = @ \o <<"add_plugin", "return">>]
    /\ UNCHANGED <<fs, net>>
    /\ ConvFrame

\* the process ends; the next one starts with a new Converter
Exit ==
    /\ conv.pc \in {"returned", "raised"}
    /\ conv' = [NoConverter EXCEPT !.runs = conv.runs + 1, !.inside = conv.inside]
    /\ net' = NoRequests
    /\ UNCHANGED <<disk, fs>>
    /\ ConvFrame

NextConvert ==
    \/ Construct
    \/ Call
    \/ Normalize
    \/ Classify
    \/ Select
    \/ FetchOk
    \/ FetchFails
    \/ LlmGate
    \/ FetchHtml
    \/ Enhance
    \/ Polish
    \/ Generate
    \/ AddToMarketplace
    \/ Exit

SpecConvert == InitConvert /\ [][NextConvert]_vars

(***************************************************************************)
(* Properties of a conversion (SpecConvert).                               *)
(***************************************************************************)
\* the process has finished its call, by return or by exception
Finished == conv.pc \in {"returned", "raised"}

\* the catalog entry with the name, NoEntry when there is none
CatalogEntry(d, n) ==
    IF Exists(d) /\ HasName(d.plugins, n) THEN d.plugins[IndexOfName(d.plugins, n)]
    ELSE NoEntry

\* C5: when a step of the LLM path of convert raised (the page re-fetch,
\* enhance_mcp_info, generate_plugin_description), convert returns the plugin
\* path, and plugin.json and the catalog entry are built from the record
\* exactly as the extractor returned it.
C5_LlmFailureKeepsExtractorRecord ==
    (conv.mode = "convert" /\ conv.llm_raised # "" /\ conv.pc = "returned") =>
        LET dir == sanitize_name(conv.fetched.name)
        IN  /\ conv.result.kind = "path"
            /\ conv.plugin_dir = dir
            /\ PluginJson(fs, dir) = PluginConfig(conv.fetched, dir)
            /\ CatalogEntry(disk, dir) =
                   PluginEntry([inside |-> conv.inside, name |-> dir], conv.fetched)

\* C8: a process that constructs the Converter and calls get_info makes no
\* LLM call and leaves the output directory, every plugin.json and the
\* catalog file as they were before the Converter was constructed.
C8_GetInfoHasNoSideEffects ==
    (conv.mode = "get_info" /\ Finished) =>
        /\ net.llm = 0
        /\ fs = conv.pre.fs
        /\ disk = conv.pre.disk

\* C9: for a URL that matches neither source template, convert and get_info
\* make no fetch, no LLM call, no plugin write and no catalog upsert, and
\* fail with the error that names the two supported URL shapes.
C9_UnknownUrlRejected ==
    (conv.mode # "" /\ detect_source(conv.url0) = "unknown") =>
        /\ net.fetches = 0
        /\ net.llm = 0
        /\ fs = conv.atCall.fs
        /\ disk = conv.atCall.disk
        /\ Finished =>
              /\ conv.pc = "raised"
              /\ conv.result.error = "ConversionError"
              /\ conv.result.msg = "Unknown URL format: two supported shapes"

\* the record has been handed to PluginGenerator.generate
ReachedBuilder == conv.mode = "convert" /\ conv.pc \in {"generate", "add_plugin", "returned"}

\* C19: a record that reaches the descriptor builder, enhanced or not, has
\* an http_url if its connection_type is http, has an http_url only if its
\* connection_type is http, and has an install_command if its
\* connection_type is stdio.
C19_RecordInvariant ==
    ReachedBuilder =>
        /\ conv.info.connection_type = "http" => conv.info.http_url \notin {NoText, Lit("")}
        /\ conv.info.http_url # NoText => conv.info.connection_type = "http"
        /\ conv.info.connection_type = "stdio" => conv.info.install_command # ""

\* a hosted smithery server whose empty install command the LLM filled
C19_Witness ==
    /\ ReachedBuilder
    /\ conv.source = "smithery"
    /\ conv.info.connection_type = "http"
    /\ conv.fetched.install_command = ""
    /\ conv.info.install_command # ""
    /\ conv.info.http_url = conv.fetched.http_url

\* generate has written the plugin.json of this conversion
Generated == conv.mode = "convert" /\ conv.pc \in {"add_plugin", "returned"}

\* C20: after generate, the plugin.json of the directory is the descriptor
\* of the record just converted, whatever the directory held before: every
\* key comes from that record.  The directory has one plugin.json, the other
\* directories are as they were, and generating the descriptor the
\* directory already held leaves the output directory as it was.
C20_GenerateOverwrites ==
    Generated =>
        /\ PluginJson(fs, conv.plugin_dir) = PluginConfig(conv.info, conv.plugin_dir)
        /\ Cardinality({ e \in fs.plugins : e[1] = conv.plugin_dir }) = 1
        /\ \A e \in conv.atCall.fs.plugins : e[1] # conv.plugin_dir => e \in fs.plugins
        /\ PluginJson(conv.atCall.fs, conv.plugin_dir)
               = PluginConfig(conv.info, conv.plugin_dir) => fs = conv.atCall.fs

\* the directory held a descriptor with homepage and repository; the later
\* record has no homepage, and neither key is in the new plugin.json
C20_Witness ==
    /\ Generated
    /\ HasPluginDir(conv.atCall.fs, conv.plugin_dir)
    /\ PluginJson(conv.atCall.fs, conv.plugin_dir).homepage # None
    /\ PluginJson(conv.atCall.fs, conv.plugin_dir).repository # None
    /\ conv.info.homepage = None
    /\ PluginJson(fs, conv.plugin_dir).homepage = None
    /\ PluginJson(fs, conv.plugin_dir).repository = None

\* the stages of convert in the order of its statements (lines 77-125)
StageOrder ==
    <<"normalize", "classify", "select", "fetch", "fetch_html", "enhance", "polish",
      "build", "write", "add_plugin", "return">>

Rank(stage) == CHOOSE i \in 1..Len(StageOrder) : StageOrder[i] = stage

\* the stages only taken with a GeminiParser
LlmStages == {"fetch_html", "enhance", "polish"}

Started(stage) == \E i \in 1..Len(conv.stages) : conv.stages[i] = stage

\* C21: in a run of convert the stages started so far are in the fixed
\* order, none twice; a stage other than the LLM ones has started only if
\* every earlier such stage has; enhance only after the page was fetched for
\* it and polish only after enhance; the catalog is as it was at the call
\* until the upsert, which comes after plugin.json was written in this run;
\* and a path is returned exactly when the upsert is done.
C21_StagesInOrder ==
    conv.mode = "convert" =>
        /\ \A i \in 1..Len(conv.stages) : \E k \in 1..Len(StageOrder) : StageOrder[k] = conv.stages[i]
        /\ \A i, j \in 1..Len(conv.stages) :
              i < j => Rank(conv.stages[i]) < Rank(conv.stages[j])
        /\ \A i \in 1..Len(StageOrder), j \in 1..Len(StageOrder) :
              (/\ i < j
               /\ Started(StageOrder[j])
               /\ StageOrder[i] \notin LlmStages
               /\ StageOrder[j] \notin LlmStages) => Started(StageOrder[i])
        /\ Started("enhance") => Started("fetch_html") /\ Started("fetch")
        /\ Started("polish") => Started("enhance")
        /\ ~Started("add_plugin") => disk = conv.atCall.disk
        /\ ~Started("write") => fs = conv.atCall.fs
        /\ Started("add_plugin") =>
              /\ Started("write")
              /\ PluginJson(fs, conv.plugin_dir) = PluginConfig(conv.info, conv.plugin_dir)
        /\ conv.result.kind = "path" <=> Started("return")
        /\ Started("return") =>
              /\ Started("add_plugin")
              /\ HasName(disk.plugins, conv.plugin_dir)

\* a run that took every stage and returned the path
C21_Witness ==
    /\ conv.mode = "convert"
    /\ conv.stages = StageOrder
    /\ conv.result.kind = "path"

\* C22: generate_plugin_description is called only after enhance_mcp_info
\* has returned and only if the description it returned is empty or has
\* fewer than 20 characters; if it has 20 or more, no such call is made in
\* the run, the provider got at most the one request of enhance_mcp_info,
\* and the description stays the one enhance_mcp_info returned.
C22_PolishOnlyWhenShort ==
    conv.mode = "convert" =>
        /\ Started("polish") =>
              /\ Started("enhance")
              /\ Len(conv.merged.description) < 20
        /\ conv.pc = "polish" =>
              /\ Started("enhance")
              /\ Len(conv.merged.description) < 20
              /\ conv.info = conv.merged
        /\ (Started("enhance") /\ Len(conv.merged.description) >= 20) =>
              /\ ~Started("polish")
              /\ conv.pc # "polish"
              /\ net.llm <= 1
              /\ conv.info.description = conv.merged.description

\* the polish call was made for a merged description of 19 characters
C22_Witness ==
    /\ conv.mode = "convert"
    /\ Started("polish")
    /\ conv.merged.description = Desc19
    /\ conv.info.description = "LLM: a polished description of the plugin"

\* how often a stage was started in the run
Attempts(stage) == Cardinality({ i \in 1..Len(conv.stages) : conv.stages[i] = stage })

\* the stages that send a request: to the source page, to the LLM provider
FetchStages == {"fetch", "fetch_html"}
ProviderStages == {"enhance", "polish"}

\* C23: a run of convert that got as far as fetching has requested the
\* source page exactly once, with or without a GeminiParser; it has sent at
\* most two requests to the LLM provider; and no requesting stage was
\* attempted twice.
C23_OneFetchTwoLlmCalls ==
    (conv.mode = "convert" /\ conv.pc \in {"returned", "raised"} /\ Started("fetch")) =>
        /\ net.fetches = 1
        /\ net.llm <= 2
        /\ \A stage \in FetchStages \cup ProviderStages : Attempts(stage) <= 1

\* C26: after a convert that returned, the directory name is the sanitized
\* name of the record, the plugin.json of that directory has it as its name,
\* the catalog has exactly one entry of that name, which is the entry built
\* from this record and whose source is that directory; a directory and an
\* entry of that name from an earlier conversion are replaced, not joined
\* by a second one.
C26_OneNameOneDirOneEntry ==
    (conv.mode = "convert" /\ conv.pc = "returned") =>
        LET dir   == conv.plugin_dir
            named == { i \in 1..Len(disk.plugins) : disk.plugins[i].name = dir }
        IN  /\ dir = sanitize_name(conv.info.name)
            /\ Cardinality({ e \in fs.plugins : e[1] = dir }) = 1
            /\ PluginJson(fs, dir).name = dir
            /\ Cardinality(named) = 1
            /\ \A i \in named :
                  /\ disk.plugins[i] = PluginEntry([inside |-> conv.inside, name |-> dir],
                                                    conv.info)
                  /\ disk.plugins[i].source.name = dir
            /\ Len(disk.plugins) = Len(conv.atCall.disk.plugins)
                                      + (IF HasName(conv.atCall.disk.plugins, dir) THEN 0 ELSE 1)
            /\ Cardinality(fs.plugins) = Cardinality(conv.atCall.fs.plugins)
                                      + (IF HasPluginDir(conv.atCall.fs, dir) THEN 0 ELSE 1)

\* a record named "S x" converted after a record named "S_x": both sanitize
\* to s-x, and the directory and the entry of the earlier one are replaced
C26_Witness ==
    /\ conv.mode = "convert"
    /\ conv.pc = "returned"
    /\ conv.info.name = <<"S", " ", "x">>
    /\ HasPluginDir(conv.atCall.fs, conv.plugin_dir)
    /\ HasName(conv.atCall.disk.plugins, conv.plugin_dir)
    /\ conv.atCall.disk.plugins[IndexOfName(conv.atCall.disk.plugins, conv.plugin_dir)]
            .description = FallbackDescription(<<"S", "_", "x">>)
    /\ PluginJson(conv.atCall.fs, conv.plugin_dir) # PluginJson(fs, conv.plugin_dir)

\* C10: when the extractor's fetch fails in convert with an HTTP error or
\* any other exception, convert ends at once by raising ConversionError: the
\* page was requested once, no LLM call was made, the plugin directories and
\* the catalog are as they were when convert was called.
C10_FetchFailureHasNoEffect ==
    (conv.mode = "convert" /\ conv.fetch_exc # "") =>
        /\ conv.pc = "raised"
        /\ conv.result.kind = "error"
        /\ conv.result.error = "ConversionError"
        /\ net.fetches = 1
        /\ net.llm = 0
        /\ fs = conv.atCall.fs
        /\ disk = conv.atCall.disk

\* a page-parse failure on a second conversion, with the LLM enabled and a
\* plugin of the first conversion in the catalog and on disk
C10_Witness ==
    /\ conv.mode = "convert"
    /\ conv.fetch_exc = "Exception"
    /\ conv.pc = "raised"
    /\ conv.result.msg = "Failed to parse MCP page"
    /\ conv.parser
    /\ Exists(disk)
    /\ Len(disk.plugins) > 0
    /\ fs.plugins # {}

(***************************************************************************)
(* SpecEnhance, continued: the call and its properties.                    *)
(***************************************************************************)
InitEnhance ==
    /\ disk = MissingFile
    /\ last = NoCall
    /\ born = [n \in PluginNames |-> 0]
    /\ procs = IdleProcs
    /\ log = <<>>
    /\ fs = EmptyDir
    /\ conv = NoConverter
    /\ net = NoRequests
    /\ enh \in { [NoEnhanceCall EXCEPT !.before = r] : r \in EnhanceInputs }
    /\ pure = NoPureCall

\* enhance_mcp_info(mcp_info, html_content)
EnhanceCall ==
    /\ enh.pc = "idle"
    /\ \E ans \in AllAnswers :
          enh' = [enh EXCEPT !.pc = "returned", !.answer = ans,
                             !.after = enhance_mcp_info(enh.before, ans),
                             !.requests = EnhanceRequests(enh.before)]
    /\ UNCHANGED <<catalogVars, raceVars, fs, conv, net, pure>>

NextEnhance == EnhanceCall

SpecEnhance == InitEnhance /\ [][NextEnhance]_vars

\* C6: on a record whose description, tools and installCommand are all
\* non-empty, enhance_mcp_info returns the record unchanged and sends no
\* request to the provider.
C6_EnhancementGate ==
    (/\ enh.pc = "returned"
     /\ enh.before.description # ""
     /\ enh.before.tools # <<>>
     /\ enh.before.install_command # "")
    => (enh.after = enh.before /\ enh.requests = 0)

\* the gate closed on a record with empty installArgs, although the provider
\* would have answered with a value for every field
C6_Witness ==
    /\ enh.pc = "returned"
    /\ enh.before.description # ""
    /\ enh.before.tools # <<>>
    /\ enh.before.install_command # ""
    /\ enh.before.install_args = <<>>
    /\ enh.answer.kind = "json"
    /\ enh.answer.install_args # <<>>
    /\ enh.answer.description # ""
    /\ enh.requests = 0

\* C7: each of description, tools, installCommand and installArgs that was
\* non-empty on the input record has the same value on the returned record,
\* whatever the provider answered.
C7_MergePrecedence ==
    enh.pc = "returned" =>
        /\ enh.before.description # ""     => enh.after.description = enh.before.description
        /\ enh.before.tools # <<>>         => enh.after.tools = enh.before.tools
        /\ enh.before.install_command # "" =>
               enh.after.install_command = enh.before.install_command
        /\ enh.before.install_args # <<>>  =>
               enh.after.install_args = enh.before.install_args

\* the provider answered with another description and with tools; the
\* empty tools were filled and the description that was present was kept
C7_Witness ==
    /\ enh.pc = "returned"
    /\ enh.before.description # ""
    /\ enh.answer.description # ""
    /\ enh.answer.description # enh.before.description
    /\ enh.before.tools = <<>>
    /\ enh.after.tools = enh.answer.tools
    /\ enh.after.tools # <<>>
    /\ enh.after.description = enh.before.description

(***************************************************************************)
(* SpecPure: the pure functions called directly, on every argument of a    *)
(* bounded set: normalize_url (applied to its own result as well),         *)
(* detect_source with FastMCPSource.can_handle, _sanitize_name,            *)
(* _create_plugin_config, the install-command extractors of both sources,  *)
(* and the normalize / classify / select prefix of Converter.convert.      *)
(***************************************************************************)
MaxTail    == 3     \* tokens a URL argument has after its prefix
MaxNameLen == 4     \* characters of a name argument

\* the sequences over S of length 0..n
SeqsUpTo(S, n) == UNION { [1..k -> S] : k \in 0..n }

UrlTokens == {"/", "server.", "smithery.ai", "server", "s", " ", "217"}

UrlPrefixes ==
    { <<>>,
      Https,
      Https \o <<"server.", "smithery.ai", "/">>,
      Https \o <<"smithery.ai", "/", "server", "/">>,
      Https \o <<"fastmcp.me", "/", "MCP", "/", "Details", "/">>,
      Https \o <<"fastmcp.me", "/", "MCP", "/", "Details", "/", "217", "/">>,
      Https \o <<"fastmcp.me", "/", "MCP", "/", "Details", "/", "217", "/", "server.">>,
      <<"http:", "/", "/", "www.", "fastmcp.me", "/", "MCP", "/", "Details", "/", "7", "/">> }

\* the strings passed as url
UrlInputs == { p \o t : p \in UrlPrefixes, t \in SeqsUpTo(UrlTokens, MaxTail) }

\* the characters of the names passed to _sanitize_name, and the two names
\* the documentation of the sanitizer gives
NameChars == {"M", "y", " ", "_", "-", "!"}

MyCoolMCP == <<"M","y"," ","C","o","o","l"," ","M","C","P","!","!">>

NameInputs == SeqsUpTo(NameChars, MaxNameLen) \cup { MyCoolMCP, <<"_","_","_">> }

\* the records passed to _create_plugin_config
DescriptorInputs ==
    { [NoInfo EXCEPT !.name = n, !.connection_type = ct, !.http_url = hu,
                     !.install_command = c, !.install_args = a, !.env_vars = ev] :
        n  \in { <<"M","y"," ","M","C","P","!">>, <<"_","_","_">> },
        ct \in {"stdio", "http"},
        hu \in {NoText, Lit(""), Lit("https://x/y")},
        c  \in {"", "uvx"},
        a  \in {<<>>, <<Lit("pkg")>>},
        ev \in {{}, {"API_KEY"}} }

\* the command forms a page text can show, and the pages passed to the two
\* install-command extractors: every set of forms, with or without a package
\* name of the server on the page
CommandForms == {"npx -y", "uvx", "bunx", "npm exec", "smithery-cli install", "npm install"}

InstallPages ==
    { [NoPage EXCEPT !.commands = cs, !.pkgHint = h] :
        cs \in SUBSET CommandForms, h \in BOOLEAN }

InitPure ==
    /\ disk = MissingFile
    /\ last = NoCall
    /\ born = [n \in PluginNames |-> 0]
    /\ procs = IdleProcs
    /\ log = <<>>
    /\ fs = EmptyDir
    /\ conv = NoConverter
    /\ net = NoRequests
    /\ enh = NoEnhanceCall
    /\ pure \in { [NoPureCall EXCEPT !.arg = "url", !.url = u] : u \in UrlInputs }
           \cup { [NoPureCall EXCEPT !.arg = "name", !.name = n] : n \in NameInputs }
           \cup { [NoPureCall EXCEPT !.arg = "info", !.info = r] : r \in DescriptorInputs }
           \cup { [NoPureCall EXCEPT !.arg = "page", !.page = pg, !.name = <<"S", "_", "x">>] :
                      pg \in InstallPages }

PureFrame == UNCHANGED <<catalogVars, raceVars, fs, conv, net, enh>>

\* normalize_url(url), and normalize_url of what that call returned
NormalizeUrlCall ==
    /\ pure.arg = "url"
    /\ pure.pc \in {"idle", "normalized"}
    /\ Len(pure.outs) < 2
    /\ pure' = [pure EXCEPT !.pc = "normalized",
                            !.outs = Append(@, normalize_url(IF pure.outs = <<>> THEN pure.url
                                                             ELSE pure.outs[Len(pure.outs)]))]
    /\ PureFrame

\* detect_source(url) and FastMCPSource().can_handle(url)
DetectSourceCall ==
    /\ pure.arg = "url"
    /\ pure.pc = "idle"
    /\ pure' = [pure EXCEPT !.pc = "detected", !.kind = detect_source(pure.url),
                            !.handles = FastMCPCanHandle(pure.url)]
    /\ PureFrame

\* PluginGenerator._sanitize_name(name)
SanitizeNameCall ==
    /\ pure.arg = "name"
    /\ pure.pc = "idle"
    /\ pure' = [pure EXCEPT !.pc = "sanitized", !.clean = sanitize_name(pure.name)]
    /\ PureFrame

\* PluginGenerator._create_plugin_config(mcp_info, plugin_name) as generate
\* calls it, with plugin_name = _sanitize_name(mcp_info.name)
CreatePluginConfigCall ==
    /\ pure.arg = "info"
    /\ pure.pc = "idle"
    /\ LET dir == sanitize_name(pure.info.name)
       IN  pure' = [pure EXCEPT !.pc = "built", !.dir = dir,
                                !.server = ServerConfig(pure.info, dir)]
    /\ PureFrame

\* FastMCPSource._extract_install_command(soup, mcp_name) and
\* SmitherySource._determine_connection(soup, server_name) on a page that
\* does not say it is hosted
InstallCommandCall ==
    /\ pure.arg = "page"
    /\ pure.pc = "idle"
    /\ \E source \in {"fastmcp", "smithery"} :
          pure' = [pure EXCEPT
                     !.pc = "installed", !.source = source,
                     !.install = IF source = "fastmcp"
                                 THEN FastMCPInstall(pure.page, pure.name)
                                 ELSE LET conn == SmitheryConnection(pure.page, pure.name)
                                      IN  <<conn[2], conn[3]>>]
    /\ PureFrame

\* Converter.convert, lines 77-90, on url: normalize_url, then detect_source
\* and _get_source on what it returned; kind is detect_source of the
\* argument itself
DispatchCall ==
    /\ pure.arg = "url"
    /\ pure.pc = "idle"
    /\ LET normalized == normalize_url(pure.url)
       IN  pure' = [pure EXCEPT !.pc = "dispatched", !.kind = detect_source(pure.url),
                                !.outs = <<normalized>>,
                                !.source = IF detect_source(normalized) = "unknown"
                                           THEN "" ELSE GetSource(normalized)]
    /\ PureFrame

NextPure ==
    \/ InstallCommandCall
    \/ DispatchCall
    \/ NormalizeUrlCall
    \/ DetectSourceCall
    \/ SanitizeNameCall
    \/ CreatePluginConfigCall

SpecPure == InitPure /\ [][NextPure]_vars

\* the command forms of the fixed order, and what each gives
OrderedForms == <<"npx -y", "uvx", "bunx", "npm exec">>

FormResult(form) ==
    IF form = "npx -y" THEN <<"npx", <<Lit("-y"), PackageOf("npx -y")>>>>
    ELSE IF form = "uvx" THEN <<"uvx", <<PackageOf("uvx")>>>>
    ELSE IF form = "bunx" THEN <<"bunx", <<PackageOf("bunx")>>>>
    ELSE <<"npm", <<Lit("exec"), PackageOf("npm exec")>>>>

\* the first form of the fixed order on the page, 0 if there is none
FirstForm(commands) ==
    IF \E i \in 1..Len(OrderedForms) : OrderedForms[i] \in commands
    THEN CHOOSE i \in 1..Len(OrderedForms) :
            /\ OrderedForms[i] \in commands
            /\ \A j \in 1..(i - 1) : OrderedForms[j] \notin commands
    ELSE 0

\* C24: for either extractor, on a page without the `@scope/cli install`
\* form, the first of npx -y, uvx, bunx, npm exec on the page gives command
\* and args; on a page with none of the forms the result is `npx -y` with a
\* package name, which holds the identifying segment of the URL unless the
\* page names a package.
C24_InstallCommandOrder ==
    (pure.pc = "installed" /\ "smithery-cli install" \notin pure.page.commands) =>
        /\ FirstForm(pure.page.commands) # 0 =>
              pure.install = FormResult(OrderedForms[FirstForm(pure.page.commands)])
        /\ FirstForm(pure.page.commands) = 0 =>
              /\ pure.install[1] = "npx"
              /\ pure.install[2][1] = Lit("-y")
              /\ ~pure.page.pkgHint =>
                    pure.install[2][Len(pure.install[2])].name \in {pure.name, Lower(pure.name)}

\* C25: a URL that detect_source classifies as fastmcp is returned
\* unchanged by normalize_url, and convert, which classifies what
\* normalize_url returned, selects the FastMCP extractor for it.
C25_NormalizeKeepsFastMCP ==
    (pure.pc = "dispatched" /\ pure.kind = "fastmcp") =>
        /\ pure.outs = <<pure.url>>
        /\ pure.source = "fastmcp"

\* C15: normalize_url applied to what normalize_url returned returns it
\* unchanged.
C15_NormalizeIdempotent ==
    (pure.pc = "normalized" /\ Len(pure.outs) = 2) => pure.outs[2] = pure.outs[1]

\* the first call rewrote the URL, to a canonical form whose name still holds
\* the alias host, and the second call was made
C15_Witness ==
    /\ pure.pc = "normalized"
    /\ Len(pure.outs) = 2
    /\ pure.outs[1] # pure.url
    /\ HasAliasHost(pure.outs[1])

\* the FASTMCP_PATTERN template: some prefix of the string has the form
\* http(s)://[www.]fastmcp.me/MCP/Details/<digits>/<name>
MatchesFastMCPTemplate(u) ==
    \E h \in {4, 5} : \E e \in (h + 6)..Len(u) :
        /\ HttpScheme(u)
        /\ h = 5 => Tok(u, 4) = "www."
        /\ SubSeq(u, h, h + 5) = <<"fastmcp.me", "/", "MCP", "/", "Details", "/">>
        /\ \A k \in (h + 6)..e : IsDigitTok(u[k])
        /\ Tok(u, e + 1) = "/"
        /\ IsNameTok(Tok(u, e + 2))

\* the SMITHERY_PATTERN template: some prefix of the string has the form
\* http(s)://[server.]smithery.ai/[server/]<name>
MatchesSmitheryTemplate(u) ==
    \E h \in {4, 5} : \E p \in {0, 2} :
        /\ HttpScheme(u)
        /\ h = 5 => Tok(u, 4) = "server."
        /\ Tok(u, h) = "smithery.ai" /\ Tok(u, h + 1) = "/"
        /\ p = 2 => (Tok(u, h + 2) = "server" /\ Tok(u, h + 3) = "/")
        /\ IsNameTok(Tok(u, h + 2 + p))

OnlySeparators(name) ==
    \A i \in 1..Len(name) :
        name[i] \in SpecialChars \cup SpaceChars \cup {"_", "-"}

\* C17: what _sanitize_name returns is not empty, neither begins nor ends
\* with a hyphen and has no two hyphens in a row; for a name that leaves
\* nothing, "___" among them, it is "unknown-plugin"; for "My Cool MCP!!" it
\* is "my-cool-mcp".
C17_SanitizedName ==
    pure.pc = "sanitized" =>
        /\ pure.clean # <<>>
        /\ pure.clean[1] # "-"
        /\ pure.clean[Len(pure.clean)] # "-"
        /\ \A i \in 1..(Len(pure.clean) - 1) :
               ~(pure.clean[i] = "-" /\ pure.clean[i + 1] = "-")
        /\ OnlySeparators(pure.name) => pure.clean = UnknownPlugin
        /\ pure.name = <<"_","_","_">> => pure.clean = UnknownPlugin
        /\ pure.name = MyCoolMCP =>
               pure.clean = <<"m","y","-","c","o","o","l","-","m","c","p">>

\* a name whose separators meet a hyphen: "M-_y" gives "m-y"
C17_Witness ==
    /\ pure.pc = "sanitized"
    /\ pure.name = <<"M", "-", "_", "y">>
    /\ pure.clean = <<"m", "-", "y">>

\* the record has connection_type "http" and an http_url
IsHttpRecord(info) ==
    info.connection_type = "http" /\ info.http_url \notin {NoText, Lit("")}

\* C18: for a record with connection_type http and an http_url the emitted
\* server config has exactly the keys type and url, with type "http" and
\* url the http_url; for every other record it has command and args and
\* neither type nor url, command being install_command or "npx" when that
\* is empty, args being install_args or ["-y", "mcp-server-<directory
\* name>"] when that is empty.
C18_ServerConfigBranches ==
    pure.pc = "built" =>
        /\ IsHttpRecord(pure.info) =>
               /\ ServerKeys(pure.server) = {"type", "url"}
               /\ pure.server.type = "http"
               /\ pure.server.url = pure.info.http_url
        /\ ~IsHttpRecord(pure.info) =>
               /\ {"command", "args"} \subseteq ServerKeys(pure.server)
               /\ ServerKeys(pure.server) \cap {"type", "url"} = {}
               /\ pure.info.install_command # "" =>
                      pure.server.command = pure.info.install_command
               /\ pure.info.install_command = "" => pure.server.command = "npx"
               /\ pure.info.install_args # <<>> =>
                      pure.server.args.value = pure.info.install_args
               /\ pure.info.install_args = <<>> =>
                      pure.server.args.value =
                          <<Lit("-y"), [text |-> "mcp-server-", name |-> pure.dir]>>

\* a record of type http whose http_url is the empty string, with no
\* install command and no arguments, named "___": both defaults are used
C18_Witness ==
    /\ pure.pc = "built"
    /\ pure.info.connection_type = "http"
    /\ pure.info.http_url = Lit("")
    /\ pure.info.install_command = ""
    /\ pure.info.install_args = <<>>
    /\ pure.dir = UnknownPlugin
    /\ pure.server.command = "npx"
    /\ pure.server.args.value = <<Lit("-y"), [text |-> "mcp-server-", name |-> UnknownPlugin]>>

(***************************************************************************)
(* SpecRace: two add_plugin calls on the same catalog file, interleaved at *)
(* the file accesses the code makes: the existence checks of _load_config  *)
(* and initialize, the read of _load_config, and the open(path, "w") and   *)
(* the write of _save_config.  There is no lock.                           *)
(***************************************************************************)
\* what the file holds after a caller writes `config` through the handle it
\* opened earlier.  If the file is still as the caller's open truncated it,
\* the content is the caller's.  If another caller wrote in between, the
\* bytes go over that content from offset 0 and a longer older content
\* leaves its tail behind: the result is the caller's document or no
\* document at all.
WriteOutcomes(d, config) ==
    IF d.state = "truncated" THEN { config } ELSE { config, CorruptFile }

\* the catalogs a root can hold when the two calls start
RaceStartFiles ==
    { MissingFile,
      ConfigFile(DefaultName, DefaultDesc, DefaultOwner, <<>>),
      ConfigFile(DefaultName, DefaultDesc, DefaultOwner,
                 << PluginEntry([inside |-> TRUE, name |-> AllNames[1]], InfoBare) >>) }

InitRace ==
    /\ disk \in RaceStartFiles
    /\ last = NoCall
    /\ born = [n \in PluginNames |-> 0]
    /\ procs \in [Writers -> [pc : {"load"}, args : AddArgs, loaded : {MissingFile},
                               config : {MissingFile}]]
    /\ log = <<>>
    /\ fs = EmptyDir
    /\ conv = NoConverter
    /\ net = NoRequests
    /\ enh = NoEnhanceCall
    /\ pure = NoPureCall

\* the config add_plugin saves (lines 58-89): the one it loaded with its
\* entry upserted; what the file holds by then plays no part
ConfigToSave_Reloaded(loaded, current, entry) ==
    IF Parses(current) THEN [current EXCEPT !.plugins = Upsert(current.plugins, entry)]
    ELSE [loaded EXCEPT !.plugins = Upsert(loaded.plugins, entry)]

ConfigToSave(loaded, current, entry) ==
    [loaded EXCEPT !.plugins = Upsert(loaded.plugins, entry)]

Step(p, pc, config) == [procs EXCEPT ![p].pc = pc, ![p].config = config]
Logged(p, what) == Append(log, [proc |-> p, what |-> what])

\* _load_config, line 136: if not self.config_path.exists()
LoadCheck(p) ==
    /\ procs[p].pc = "load"
    /\ procs' = Step(p, IF Exists(disk) THEN "read" ELSE "init_check", MissingFile)
    /\ log' = Logged(p, "exists")
    /\ UNCHANGED <<catalogVars, convVars>>

\* initialize, lines 40-42: mkdir, then if not self.config_path.exists()
InitCheck(p) ==
    /\ procs[p].pc = "init_check"
    /\ procs' = Step(p, IF Exists(disk) THEN "read" ELSE "init_open",
                     ConfigFile(DefaultName, DefaultDesc, DefaultOwner, <<>>))
    /\ log' = Logged(p, "exists")
    /\ UNCHANGED <<catalogVars, convVars>>

\* _save_config called by initialize, line 148: open(path, "w")
InitOpen(p) ==
    /\ procs[p].pc = "init_open"
    /\ disk' = TruncatedFile
    /\ procs' = Step(p, "init_write", procs[p].config)
    /\ log' = Logged(p, "init_open")
    /\ UNCHANGED <<last, born, convVars>>

\* _save_config called by initialize, lines 149-150: the default catalog
InitWrite(p) ==
    /\ procs[p].pc = "init_write"
    /\ disk' \in WriteOutcomes(disk, procs[p].config)
    /\ procs' = Step(p, "read", MissingFile)
    /\ log' = Logged(p, "init_write")
    /\ UNCHANGED <<last, born, convVars>>

\* _load_config, lines 139-142: json.load raises on a file that holds no
\* document, and the exception leaves add_plugin
Read(p) ==
    /\ procs[p].pc = "read"
    /\ IF Parses(disk)
       THEN procs' = [procs EXCEPT ![p].pc = "open", ![p].loaded = disk]
       ELSE procs' = Step(p, "raised", MissingFile)
    /\ log' = Logged(p, IF Parses(disk) THEN "read" ELSE "read_failed")
    /\ UNCHANGED <<catalogVars, convVars>>

\* add_plugin, lines 60-87, on the local config, then _save_config called by
\* add_plugin, line 148: open(path, "w")
SaveOpen(p) ==
    /\ procs[p].pc = "open"
    /\ disk' = TruncatedFile
    /\ procs' = Step(p, "write",
                     ConfigToSave(procs[p].loaded, disk,
                                  PluginEntry(procs[p].args.path, procs[p].args.info)))
    /\ log' = Logged(p, "open")
    /\ UNCHANGED <<last, born, convVars>>

\* _save_config called by add_plugin, lines 149-150
SaveWrite(p) ==
    /\ procs[p].pc = "write"
    /\ disk' \in WriteOutcomes(disk, procs[p].config)
    /\ procs' = Step(p, "done", procs[p].config)
    /\ log' = Logged(p, "write")
    /\ UNCHANGED <<last, born, convVars>>

NextRace ==
    \E p \in Writers :
        \/ LoadCheck(p)
        \/ InitCheck(p)
        \/ InitOpen(p)
        \/ InitWrite(p)
        \/ Read(p)
        \/ SaveOpen(p)
        \/ SaveWrite(p)

SpecRace == InitRace /\ [][NextRace]_vars

(***************************************************************************)
(* Properties of the interleaved calls.                                    *)
(***************************************************************************)
\* the position in the log of the caller's access `what`, 0 if it made none
At(p, what) ==
    LET hits == { i \in 1..Len(log) : log[i].proc = p /\ log[i].what = what }
    IN  IF hits = {} THEN 0 ELSE CHOOSE i \in hits : \A j \in hits : i <= j

NameOf(p)  == procs[p].args.path.name
EntryOf(p) == PluginEntry(procs[p].args.path, procs[p].args.info)

EntriesNamed(plugins, n) == SelectSeq(plugins, LAMBDA e : e.name = n)

\* both calls returned, for different names; both had loaded before either
\* began to save, and w saved after o had finished its save
LostUpdateRun(o, w) ==
    /\ o # w
    /\ procs[o].pc = "done" /\ procs[w].pc = "done"
    /\ NameOf(o) # NameOf(w)
    /\ At(o, "read") < At(o, "open") /\ At(o, "read") < At(w, "open")
    /\ At(w, "read") < At(o, "open") /\ At(w, "read") < At(w, "open")
    /\ At(o, "write") < At(w, "open")

C13_SaveLoadRoundTrip ==
    last.op = "save_config" =>
        /\ ~LoadRaises(disk)
        /\ LoadConfig(disk).plugins = last.saved.plugins
        /\ \A i \in 1..Len(last.saved.plugins) :
               "homepage" \in DOMAIN DumpPlugin(last.saved.plugins[i])
                   <=> LoadConfig(disk).plugins[i].homepage # None

\* a catalog of three entries was saved: one without homepage and one whose
\* homepage is the empty string and whose category is None
C13_Witness ==
    /\ last.op = "save_config"
    /\ Len(last.saved.plugins) = 3
    /\ \E i \in 1..3 : last.saved.plugins[i].homepage = None
    /\ \E i \in 1..3 : /\ last.saved.plugins[i].homepage = ""
                        /\ last.saved.plugins[i].category = None
    /\ LoadConfig(disk).plugins = last.saved.plugins

\* the operations that call _load_config
LoadingOps == {"add_plugin", "remove_plugin", "list_plugins", "get_plugin"}

\* C14: on a catalog file that exists and does not parse, add_plugin,
\* remove_plugin, list_plugins and get_plugin raise and leave the file as it
\* was, and initialize leaves it as it was; on a missing file the same
\* operations do not raise and the file afterwards is a catalog with the
\* default name, owner and description.
C14_UnparsableFileIsKept ==
    /\ (last.op \in LoadingOps /\ Exists(last.pre) /\ ~Parses(last.pre)) =>
           (last.raised /\ disk = last.pre)
    /\ (last.op = "initialize" /\ Exists(last.pre)) => disk = last.pre
    /\ (last.op \in LoadingOps /\ ~Exists(last.pre)) =>
           /\ ~last.raised
           /\ Parses(disk)
           /\ disk.name = DefaultName /\ disk.owner = DefaultOwner
           /\ disk.description = DefaultDesc
           /\ last.op \in {"list_plugins", "get_plugin", "remove_plugin"} =>
                  disk.plugins = <<>>

\* add_plugin on a file that holds no JSON document
C14_Witness ==
    /\ last.op = "add_plugin"
    /\ last.pre = CorruptFile
    /\ last.raised
    /\ disk = CorruptFile

NameCount(plugins, n) == Cardinality({ i \in 1..Len(plugins) : plugins[i].name = n })

\* the entries of a file: none when the file is missing or holds no document
EntriesOf(d) == IF Parses(d) THEN d.plugins ELSE <<>>

OtherNames(plugins, n) == SelectSeq(plugins, LAMBDA e : e.name # n)

\* C11: a remove_plugin(name) that returns leaves no entry with the name and
\* leaves the entries of all other names as they were, in their order; it
\* returns true iff an entry with the name was present before the call;
\* when it returns false the entries are unchanged and a file that existed
\* is unchanged.
C11_RemoveFilters ==
    (last.op = "remove_plugin" /\ ~last.raised) =>
        /\ Parses(disk)
        /\ ~HasName(disk.plugins, last.name)
        /\ OtherNames(disk.plugins, last.name) = OtherNames(EntriesOf(last.pre), last.name)
        /\ last.ret <=> HasName(EntriesOf(last.pre), last.name)
        /\ ~last.ret => /\ disk.plugins = EntriesOf(last.pre)
                        /\ Exists(last.pre) => disk = last.pre

\* a catalog with two entries of the name around an entry of another name:
\* both went, the other stayed
C11_Witness ==
    /\ last.op = "remove_plugin"
    /\ last.ret
    /\ NameCount(last.pre.plugins, last.name) = 2
    /\ Len(last.pre.plugins) = 3
    /\ Len(disk.plugins) = 1
    /\ disk.plugins[1] = last.pre.plugins[2]

\* C27: an add_plugin or remove_plugin that returns leaves the name, the
\* description and the owner of a catalog that existed as they were, and
\* leaves every entry of another name with its field values and in its
\* order among the entries of other names; add_plugin changes the number of
\* entries by at most the one it appends, and leaves every entry but the one
\* it replaces at its position.
C27_OnlyTargetedEntryChanges ==
    (last.op \in {"add_plugin", "remove_plugin"} /\ ~last.raised) =>
        LET before == EntriesOf(last.pre)
        IN  /\ Parses(disk)
            /\ Exists(last.pre) =>
                  /\ disk.name = last.pre.name
                  /\ disk.description = last.pre.description
                  /\ disk.owner = last.pre.owner
            /\ OtherNames(disk.plugins, last.name) = OtherNames(before, last.name)
            /\ last.op = "add_plugin" =>
                  /\ Len(disk.plugins) = Len(before) + (IF HasName(before, last.name) THEN 0 ELSE 1)
                  /\ \A i \in 1..Len(before) :
                        (~HasName(before, last.name) \/ i # IndexOfName(before, last.name))
                            => disk.plugins[i] = before[i]

\* a catalog initialized with a name, an owner and a description of its own
\* holds two entries; add_plugin replaces one of them by a different entry
C27_Witness ==
    /\ last.op = "add_plugin"
    /\ ~last.raised
    /\ last.pre.name = "my-market"
    /\ disk.name = "my-market"
    /\ disk.owner = "me"
    /\ Len(last.pre.plugins) = 2
    /\ HasName(last.pre.plugins, last.name)
    /\ last.pre.plugins[IndexOfName(last.pre.plugins, last.name)] # last.entry
    /\ OtherNames(disk.plugins, last.name) # <<>>

\* C12: list_plugins and get_plugin leave the catalog file as it was before
\* the call, whether it was present or missing, and what they return is the
\* persisted entries: all of them in order, or the first entry of the name,
\* none when there is no such entry.
C12_ReadsAreReadOnly ==
    (last.op \in {"list_plugins", "get_plugin"}) =>
        /\ disk = last.pre
        /\ (last.op = "list_plugins" /\ ~last.raised) =>
               last.out = [i \in 1..Len(EntriesOf(last.pre)) |->
                              ModelDump(EntriesOf(last.pre)[i])]
        /\ (last.op = "get_plugin" /\ ~last.raised) =>
               /\ last.got.found <=> HasName(EntriesOf(last.pre), last.name)
               /\ last.got.found =>
                      last.got.plugin =
                          ModelDump(EntriesOf(last.pre)[IndexOfName(EntriesOf(last.pre),
                                                                    last.name)])

\* the last call was an add_plugin for a name the catalog already held
ReAdded == /\ last.op = "add_plugin"
           /\ HasName(last.pre.plugins, last.name)

\* C1: add_plugin for a name that is already in the catalog leaves exactly
\* one entry with that name, holding the data of this (second) call, at the
\* position the entry was first inserted at; the list keeps its length and
\* every other position keeps its entry.
C1_UpsertInPlace ==
    ReAdded =>
        LET old == last.pre.plugins
            new == disk.plugins
            i   == IndexOfName(old, last.name)
        IN  /\ NameCount(new, last.name) = 1
            /\ Len(new) = Len(old)
            /\ new[i] = last.entry
            /\ born[last.name] # 0 => i = born[last.name]
            /\ \A j \in 1..Len(old) : j # i => new[j] = old[j]

\* a second add_plugin with different data, for a name first inserted before
\* other entries that were added in between
C1_Witness ==
    /\ ReAdded
    /\ born[last.name] # 0
    /\ born[last.name] < Len(disk.plugins)
    /\ last.pre.plugins[born[last.name]] # last.entry
    /\ disk.plugins[born[last.name]] = last.entry

\* C2: the persisted plugin list never holds two entries with the same name.
C2_UniqueNames ==
    Exists(disk) =>
        \A i, j \in 1..Len(disk.plugins) :
            disk.plugins[i].name = disk.plugins[j].name => i = j

\* a full catalog reached through an add_plugin of a name that was present,
\* under a different source path
C2_Witness ==
    /\ ReAdded
    /\ Len(disk.plugins) = NumPlugins
    /\ last.pre.plugins[IndexOfName(last.pre.plugins, last.name)].source # last.entry.source

\* C3: initialize on a root whose catalog file exists (the API call with any
\* arguments, or the call made by Converter.__init__) leaves the file as it was.
C3_InitializeKeepsExisting ==
    (last.op \in {"initialize", "converter_init"} /\ Exists(last.pre)) => disk = last.pre

\* initialize called with another name, owner or description on a catalog
\* that holds plugins
C3_Witness ==
    /\ last.op = "initialize"
    /\ Exists(last.pre)
    /\ Len(last.pre.plugins) > 0
    /\ last.args.name # last.pre.name
    /\ disk.name = last.pre.name

====
